---- MODULE Spec2Model ----
(***************************************************************************)
(* Model of scripts/get_addresses.py: the bounded-concurrency fetch        *)
(* pipeline for postal-code lookups.                                       *)
(*                                                                         *)
(*   fetch_pcode    one asyncio task per postal code; its suspension       *)
(*                  points (semaphore acquire, the 1.0 s sleep, the GET,   *)
(*                  the backoff sleep) are the fetcher's control states.   *)
(*   process_range  creates the tasks, drains asyncio.as_completed,        *)
(*                  flattens and builds the (Geo)DataFrame.                *)
(*   __main__       writes the parquet file and uploads it.                *)
(*                                                                         *)
(* The server is the environment: every outstanding request is answered    *)
(* by one response drawn from a finite set of response shapes.             *)
(***************************************************************************)
EXTENDS Integers, Sequences, FiniteSets, TLC

\* ------------------------------------------------------------------ bounds
MaxTasks == 2        \* most keys in a range [start, end]
MaxStart == 1        \* start is drawn from 1..MaxStart
MaxLimit == 2        \* the concurrency limit is drawn from 1..MaxLimit
MaxRecs == 1         \* most records in one response (single-key runs)
MaxTotal == 2        \* largest totalNumPages reported (single-key runs)
MaxRecsRun == 2      \* most records in one response (multi-key runs)
MaxBacklog == 2      \* most finished tasks waiting for the controller (long runs)
MaxPage == 3         \* last page whose "one more page" answer is followed

\* ------------------------------------------------------- program constants
MAX_ATTEMPTS == 4    \* for attempt in range(4)
PROGRESS_EVERY == 1000
BACKOFF_CONSTANT == 1
KEY_WIDTH == 6
FIXED_DELAY == 1     \* await asyncio.sleep(1.0)

Tasks == 1..MaxTasks

VARIABLES
    start, end,      \* the CLI arguments
    limit,           \* CONCURRENT_REQUESTS, the size of the semaphore
    pc,              \* position of the main coroutine / __main__
    pcodes,          \* process_range: the list of keys
    sem,             \* asyncio.Semaphore._value
    waiters,         \* asyncio.Semaphore._waiters: tasks suspended in acquire()
    fpc,             \* per task: position of fetch_pcode
    page,            \* per task: fetch_pcode.page
    attempt,         \* per task: fetch_pcode.attempt
    all_results,     \* per task: fetch_pcode.all_results
    wait_time,       \* per task: duration of the sleep in progress
    ret,             \* per task: the task's result once it returned
    finished,        \* tasks that ended and whose done callback is still to run
    doneQ,           \* as_completed: the queue `done` of finished tasks
    results,         \* process_range.results
    received,        \* the tasks behind the entries of results, in order
    count, total,    \* process_range.count / total
    todo,            \* as_completed: futures still to be yielded
    printed,         \* counts printed by the progress line
    flattened,       \* process_range.flattened
    gdf,             \* value returned by process_range
    parquetCalls,    \* calls of gdf.to_parquet
    uploadCalls,     \* calls of api.upload_file
    written,         \* rows handed to to_parquet
    summary,         \* final line printed by __main__
    exitStatus,      \* process exit status
    hist             \* per task: observed request history (single-key runs)

vars == <<start, end, limit, pc, pcodes, sem, fpc, page, attempt, all_results,
          wait_time, ret, doneQ, results, received, count, total, todo,
          waiters, finished,
          printed, flattened, gdf, parquetCalls, uploadCalls, written,
          summary, exitStatus, hist>>

fetchVars == <<fpc, page, attempt, all_results, wait_time, ret, sem, doneQ,
               waiters, finished>>
loopVars == <<results, received, count, total, todo, printed>>
mainVars == <<flattened, gdf, parquetCalls, uploadCalls, written, summary,
              exitStatus>>
argVars == <<start, end, limit, pcodes>>

\* -------------------------------------------------------------- pure parts

RECURSIVE Pow2(_)
Pow2(n) == IF n = 0 THEN 1 ELSE 2 * Pow2(n - 1)

\* wait_time = (2 ** attempt) + 1
BackoffNoWait(a) == Pow2(a) - BACKOFF_CONSTANT
BackoffDoubling(a) == 2 * a + BACKOFF_CONSTANT
Backoff(a) == Pow2(a) + BACKOFF_CONSTANT

RECURSIVE Digits(_)
Digits(p) == IF p < 10 THEN <<p>> ELSE Append(Digits(p \div 10), p % 10)

RECURSIVE PadLeft(_, _)
PadLeft(s, w) == IF Len(s) >= w THEN s ELSE PadLeft(<<0>> \o s, w)

\* f"{p:06d}" for p >= 0, as its sequence of decimal digits
Pad06(p) == PadLeft(Digits(p), KEY_WIDTH)

\* range(start, end + 1), shifted to the index set 1..n
RangeExclusiveEnd(a, b) == IF b - 1 < a THEN <<>> ELSE [i \in 1..(b - a) |-> a + i - 1]
Range(a, b) == IF b < a THEN <<>> ELSE [i \in 1..(b - a + 1) |-> a + i - 1]

\* pcodes = [f"{p:06d}" for p in range(start, end + 1)]
Pcodes(a, b) == [i \in 1..Len(Range(a, b)) |-> Pad06(Range(a, b)[i])]

\* The address records the API returns for one page of one key.  Records are
\* opaque to the fetcher; they are told apart by key, page and position.  The
\* LATITUDE text is numeric when page + position is even, else "NIL".
Record(key, p, i) ==
    [pcode |-> key, page |-> p, idx |-> i,
     LATITUDE |-> IF (p + i) % 2 = 0 THEN "1.3" ELSE "NIL"]

Body(key, p, n) == [i \in 1..n |-> Record(key, p, i)]

\* if results: all_results.extend(results)
Extend(acc, rs) == IF rs # <<>> THEN acc \o rs ELSE acc

\* data.get("totalNumPages", 0); the field is <<>> when absent, <<n>> if present
TotalPages(r) == IF r.total = <<>> THEN 0 ELSE r.total[1]

\* if total_pages > page
MorePagesInclusive(tp, p) == tp >= p
MorePages(tp, p) == tp > p

\* response.status == 429 or response.status >= 500
TransientStatus(k) == k \in {"s429", "s5xx"}

\* failures that surface as a Python exception inside the try block:
\* transport (timeout, connection error), badjson (response.json() raises or
\* the body is not an object), badtotal (totalNumPages is not comparable with
\* an int: raised after the results were appended)
ExceptionKinds == {"transport", "badjson", "badtotal"}

\* except Exception:
CaughtTransportOnly(k) == k = "transport"
Caught(k) == k \in ExceptionKinds

\* the for loop has another attempt left after attempt a
AttemptsLeftOffByOne(a) == a + 1 <= MAX_ATTEMPTS
AttemptsLeft(a) == a + 1 < MAX_ATTEMPTS

\* asyncio.Semaphore.acquire takes a permit at once iff not locked(): the
\* value is positive and no task is suspended in acquire() (w is _waiters)
CanAcquireUnguarded(s, w) == TRUE
CanAcquire(s, w) == s > 0 /\ w = <<>>

\* asyncio.Semaphore._wake_up_next: the first task of _waiters that was not
\* woken yet (f gives the tasks' positions), 0 when there is none
NextWaiterNone(w, f) == 0
NextWaiter(w, f) ==
    IF \E i \in 1..Len(w) : f[w[i]] = "queued"
    THEN w[CHOOSE i \in 1..Len(w) :
               /\ f[w[i]] = "queued"
               /\ \A j \in 1..(i - 1) : f[w[j]] # "queued"]
    ELSE 0

\* asyncio.Semaphore.release, the value afterwards: it goes up by one, and
\* _wake_up_next takes the permit back for the task n it wakes (0: none)
ReleaseLost(s, n) == s
Release(s, n) == IF n = 0 THEN s + 1 ELSE s

\* _waiters.remove(fut)
Without(w, t) == LET Other(u) == u # t IN SelectSeq(w, Other)

\* flattened = [b for sublist in results for b in sublist]
RECURSIVE FlattenDropLast(_)
FlattenDropLast(rs) ==
    IF Len(rs) <= 1 THEN <<>> ELSE Head(rs) \o FlattenDropLast(Tail(rs))
RECURSIVE Flatten(_)
Flatten(rs) == IF rs = <<>> THEN <<>> ELSE Head(rs) \o Flatten(Tail(rs))

\* pd.to_numeric(..., errors='coerce'): text that is not a number becomes NaN
ToNumeric(s) == IF s = "NIL" THEN "NaN" ELSE s

\* pd.DataFrame(flattened) with the coerced LATITUDE column: one row a record
Table(fl) == [i \in 1..Len(fl) |-> [rec |-> fl[i], lat |-> ToNumeric(fl[i].LATITUDE)]]

\* value returned by process_range: None, or the GeoDataFrame
NoneValue == [none |-> TRUE, rows |-> <<>>]
Frame(fl) == IF fl = <<>> THEN NoneValue ELSE [none |-> FALSE, rows |-> Table(fl)]

\* if gdf is not None and not gdf.empty
ShouldExportAlways(g) == TRUE
ShouldExport(g) == ~g.none /\ g.rows # <<>>

\* page += 1
NextPageSkip(p) == p + 2
NextPage(p) == p + 1

\* count += 1
CountUpLost(c) == c
CountUp(c) == c + 1

\* if count % 1000 == 0 or count == total
ProgressDueNoFinal(c, tot) == c % PROGRESS_EVERY = 0
ProgressDue(c, tot) == c % PROGRESS_EVERY = 0 \/ c = tot

\* ------------------------------------------------------------ the server

Totals(mx, lo) == {<<>>} \cup {<<n>> : n \in lo..mx}

OkResponses(maxrec, totals) == [kind : {"ok"}, nrec : 0..maxrec, total : totals]
BadTotalResponses(maxrec) == [kind : {"badtotal"}, nrec : 0..maxrec, total : {<<>>}]
PlainResponses ==
    [kind : {"s429", "s5xx", "other", "transport", "badjson"}, nrec : {0}, total : {<<>>}]

\* every response shape, for runs over a single key
FetchResponses ==
    OkResponses(MaxRecs, Totals(MaxTotal, 0)) \cup BadTotalResponses(MaxRecs)
        \cup PlainResponses

\* the response shapes used in runs over several keys: every key has a
\* single page (totalNumPages absent or 1), and one failure of each class
RunResponses ==
    OkResponses(MaxRecsRun, {<<>>, <<1>>})
        \cup [kind : {"s429", "other", "transport"}, nrec : {0}, total : {<<>>}]

\* ---------------------------------------------------------------- history

NoHist == [asked |-> 0, askedPage |-> 0, before |-> <<>>, pure |-> TRUE,
           exit |-> "none", requests |-> <<>>,
           okOnly |-> TRUE, totals |-> {}, bodies |-> <<>>,
           okPage |-> 0, slept |-> 0, sleptKind |-> "none", log |-> <<>>]

\* ------------------------------------------------------------------- Init

Init ==
    /\ start \in 1..MaxStart
    /\ end \in 0..(MaxStart + MaxTasks - 1)
    /\ end - start + 1 <= MaxTasks
    /\ limit \in 1..MaxLimit
    /\ pc = "main"
    /\ pcodes = <<>>
    /\ sem = 0
    /\ waiters = <<>>
    /\ fpc = [t \in Tasks |-> "none"]
    /\ page = [t \in Tasks |-> 0]
    /\ attempt = [t \in Tasks |-> 0]
    /\ all_results = [t \in Tasks |-> <<>>]
    /\ wait_time = [t \in Tasks |-> 0]
    /\ ret = [t \in Tasks |-> <<>>]
    /\ finished = <<>>
    /\ doneQ = <<>>
    /\ results = <<>>
    /\ received = <<>>
    /\ count = 0
    /\ total = 0
    /\ todo = 0
    /\ printed = <<>>
    /\ flattened = <<>>
    /\ gdf = NoneValue
    /\ parquetCalls = 0
    /\ uploadCalls = 0
    /\ written = <<>>
    /\ summary = "none"
    /\ exitStatus = 0
    /\ hist = [t \in Tasks |-> NoHist]

\* a run over a single key
InitFetch == Init /\ start = end /\ limit = 1


\* ------------------------------------------------------- process_range (1)

\* asyncio.run(process_range(start, end)) up to the first iteration of the
\* as_completed loop: the keys, the semaphore, one task per entry of pcodes
StartRun ==
    /\ pc = "main"
    /\ pcodes' = Pcodes(start, end)
    /\ sem' = limit
    /\ fpc' = [t \in Tasks |-> IF t <= Len(pcodes') THEN "wait" ELSE "none"]
    /\ count' = 0
    /\ total' = Len(pcodes')
    /\ todo' = Len(pcodes')
    /\ pc' = "loop"
    /\ UNCHANGED <<start, end, limit, page, attempt, all_results, wait_time,
                   ret, doneQ, waiters, finished, results, received,
                   printed, hist>>
    /\ UNCHANGED mainVars

\* ------------------------------------------------------------ fetch_pcode

\* the end of the `async with semaphore` block of task t, which is then
\* in position state: release() wakes the first waiter, which keeps the
\* permit; the done callback of the task is scheduled
Leave(t, state) ==
    LET n == NextWaiter(waiters, fpc) IN
    /\ sem' = Release(sem, n)
    /\ fpc' = [u \in Tasks |-> IF u = t THEN state
                                ELSE IF u = n THEN "woken" ELSE fpc[u]]
    /\ finished' = Append(finished, t)
    /\ UNCHANGED <<waiters, doneQ>>

\* leaving fetch_pcode by `return all_results`
Return(t, val) ==
    /\ Leave(t, "done")
    /\ ret' = [ret EXCEPT ![t] = val]

\* leaving fetch_pcode by an exception that no handler caught
Raise(t) ==
    /\ Leave(t, "raised")
    /\ ret' = ret

\* the body of the block begins: page = 1; all_results = []; then the first
\* asyncio.sleep(1.0) starts
Enter(t) ==
    /\ page' = [page EXCEPT ![t] = 1]
    /\ all_results' = [all_results EXCEPT ![t] = <<>>]
    /\ wait_time' = [wait_time EXCEPT ![t] = FIXED_DELAY]

\* the first step of a task, `async with semaphore`: acquire() takes a
\* permit and the body begins, or the task joins _waiters and is suspended
Acquire(t) ==
    /\ pc = "loop"
    /\ fpc[t] = "wait"
    /\ IF CanAcquire(sem, waiters)
       THEN /\ sem' = sem - 1
            /\ fpc' = [fpc EXCEPT ![t] = "sleep"]
            /\ Enter(t)
            /\ UNCHANGED waiters
       ELSE /\ waiters' = Append(waiters, t)
            /\ fpc' = [fpc EXCEPT ![t] = "queued"]
            /\ UNCHANGED <<sem, page, all_results, wait_time>>
    /\ UNCHANGED <<attempt, ret, doneQ, finished, hist>>
    /\ UNCHANGED <<argVars, pc, loopVars, mainVars>>

\* a task woken by a release resumes in acquire(): it leaves _waiters,
\* wakes the next waiter if a permit is free (if self._value > 0:
\* self._wake_up_next()), and the body begins with the permit handed to it
Resume(t) ==
    /\ pc = "loop"
    /\ fpc[t] = "woken"
    /\ LET rest == Without(waiters, t)
           n == IF sem > 0 THEN NextWaiter(rest, fpc) ELSE 0
       IN  /\ waiters' = rest
           /\ sem' = IF n = 0 THEN sem ELSE sem - 1
           /\ fpc' = [u \in Tasks |-> IF u = t THEN "sleep"
                                       ELSE IF u = n THEN "woken" ELSE fpc[u]]
    /\ Enter(t)
    /\ UNCHANGED <<attempt, ret, doneQ, finished, hist>>
    /\ UNCHANGED <<argVars, pc, loopVars, mainVars>>

\* the done callback of the task that ended first (_on_completion of
\* as_completed) runs: done.put_nowait(f)
OnCompletion ==
    /\ pc = "loop"
    /\ finished # <<>>
    /\ doneQ' = Append(doneQ, Head(finished))
    /\ finished' = Tail(finished)
    /\ UNCHANGED <<fpc, page, attempt, all_results, wait_time, ret, sem,
                   waiters, hist>>
    /\ UNCHANGED <<argVars, pc, loopVars, mainVars>>

\* the fixed sleep ends: the for loop starts with attempt 0 and the GET for
\* the current page is issued.  The first steps of all tasks are scheduled
\* by as_completed at once and run before any timer of the loop expires.
Throttle(t) ==
    /\ pc = "loop"
    /\ fpc[t] = "sleep"
    /\ \A u \in Tasks : fpc[u] # "wait"
    /\ attempt' = [attempt EXCEPT ![t] = 0]
    /\ wait_time' = [wait_time EXCEPT ![t] = 0]
    /\ fpc' = [fpc EXCEPT ![t] = "request"]
    /\ UNCHANGED <<page, all_results, ret, sem, doneQ, waiters, finished>>
    /\ UNCHANGED <<argVars, pc, loopVars, mainVars>>

\* all_results.extend(results) on the list of task t, a local of its call
StoreShared(t, got) == [u \in Tasks |-> got]
Store(t, got) == [all_results EXCEPT ![t] = got]

\* the outstanding GET is answered by r (status, body) or fails
Respond(t, r) ==
    /\ pc = "loop"
    /\ fpc[t] = "request"
    /\ LET got == Extend(all_results[t], Body(pcodes[t], page[t], r.nrec)) IN
       IF r.kind = "ok" THEN
            /\ all_results' = Store(t, got)
            /\ IF MorePages(TotalPages(r), page[t])
               THEN /\ page' = [page EXCEPT ![t] = NextPage(page[t])]
                    /\ fpc' = [fpc EXCEPT ![t] = "sleep"]
                    /\ wait_time' = [wait_time EXCEPT ![t] = FIXED_DELAY]
                    /\ UNCHANGED <<ret, sem, doneQ, waiters, finished>>
               ELSE /\ Return(t, got)
                    /\ UNCHANGED <<page, wait_time>>
       ELSE IF TransientStatus(r.kind) THEN
            /\ fpc' = [fpc EXCEPT ![t] = "backoff"]
            /\ wait_time' = [wait_time EXCEPT ![t] = Backoff(attempt[t])]
            /\ UNCHANGED <<page, all_results, ret, sem, doneQ, waiters, finished>>
       ELSE IF r.kind = "other" THEN
            /\ Return(t, all_results[t])
            /\ UNCHANGED <<page, all_results, wait_time>>
       ELSE \* an exception inside the try block
            /\ all_results' = IF r.kind = "badtotal" THEN Store(t, got)
                                                      ELSE all_results
            /\ IF Caught(r.kind)
               THEN /\ fpc' = [fpc EXCEPT ![t] = "backoff"]
                    /\ wait_time' = [wait_time EXCEPT ![t] = Backoff(attempt[t])]
                    /\ UNCHANGED <<page, ret, sem, doneQ, waiters, finished>>
               ELSE /\ Raise(t)
                    /\ UNCHANGED <<page, wait_time>>
    /\ UNCHANGED attempt
    /\ UNCHANGED <<argVars, pc, loopVars, mainVars>>

\* the backoff sleep ends: next attempt for the same page, or the for loop is
\* exhausted (for ... else: break) and fetch_pcode returns all_results
Retry(t) ==
    /\ pc = "loop"
    /\ fpc[t] = "backoff"
    /\ wait_time' = [wait_time EXCEPT ![t] = 0]
    /\ IF AttemptsLeft(attempt[t])
       THEN /\ attempt' = [attempt EXCEPT ![t] = attempt[t] + 1]
            /\ fpc' = [fpc EXCEPT ![t] = "request"]
            /\ UNCHANGED <<ret, sem, doneQ, waiters, finished>>
       ELSE /\ Return(t, all_results[t])
            /\ UNCHANGED attempt
    /\ UNCHANGED <<page, all_results>>
    /\ UNCHANGED <<argVars, pc, loopVars, mainVars>>

\* the response 200 {"results": [], "totalNumPages": page + 1}: the server
\* announces one more page, nothing is appended and page += 1.  The page
\* number has no limit in the code; runs are followed up to page MaxPage + 1.
RespondOneMore(t) ==
    /\ pc = "loop"
    /\ fpc[t] = "request"
    /\ page[t] <= MaxPage
    /\ MorePages(page[t] + 1, page[t])
    /\ page' = [page EXCEPT ![t] = NextPage(page[t])]
    /\ fpc' = [fpc EXCEPT ![t] = "sleep"]
    /\ wait_time' = [wait_time EXCEPT ![t] = FIXED_DELAY]
    /\ UNCHANGED <<attempt, all_results, ret, sem, doneQ, waiters, finished,
                   hist>>
    /\ UNCHANGED <<argVars, pc, loopVars, mainVars>>

\* ---------------------------------------------- history of a fetcher's run
\* asked/askedPage: requests issued for the page last requested; before: the
\* list held when that page was first requested; pure: that page's failures
\* so far are all 429, 5xx or transport failures; exit: how the fetch ended.
\* For as long as every response was a well-formed 200 (okOnly) the history
\* also holds the pages requested, the totals reported and the bodies.
\* okPage: the last page whose well-formed 200 response was processed;
\* slept/sleptKind: the sleep that ended right before the last request.

ThrottleHist(t) ==
    hist' = [hist EXCEPT ![t] =
        [@ EXCEPT !.asked = 1,
                  !.askedPage = page[t],
                  !.before = all_results[t],
                  !.pure = TRUE,
                  !.slept = wait_time[t],
                  !.sleptKind = "fixed",
                  !.requests = IF hist[t].okOnly THEN Append(@, page[t]) ELSE <<>>]]

RespondHist(t, r) ==
    hist' = [hist EXCEPT ![t] =
        [@ EXCEPT
           !.pure = @ /\ r.kind \in {"s429", "s5xx", "transport"},
           !.okOnly = @ /\ r.kind = "ok",
           !.okPage = IF r.kind = "ok" THEN page[t] ELSE @,
           !.requests = IF r.kind = "ok" THEN @ ELSE <<>>,
           !.totals = IF r.kind = "ok" /\ hist[t].okOnly THEN @ \cup {r.total} ELSE {},
           !.bodies = IF r.kind = "ok" /\ hist[t].okOnly
                      THEN Append(@, Body(pcodes[t], page[t], r.nrec)) ELSE <<>>,
           !.exit = IF r.kind = "other" THEN "permanent"
                    ELSE IF r.kind = "ok" /\ ~MorePages(TotalPages(r), page[t])
                         THEN "complete"
                    ELSE @]]

RetryHist(t) ==
    hist' = [hist EXCEPT ![t] =
        IF AttemptsLeft(attempt[t])
        THEN [@ EXCEPT !.asked = @ + 1,
                       !.slept = wait_time[t],
                       !.sleptKind = "backoff"]
        ELSE [@ EXCEPT !.exit = "exhausted"]]

ThrottleRun(t) == Throttle(t) /\ UNCHANGED hist
RespondRun(t, r) == Respond(t, r) /\ UNCHANGED hist
RetryRun(t) == Retry(t) /\ UNCHANGED hist

ThrottleFetch(t) == Throttle(t) /\ ThrottleHist(t)
RespondFetch(t, r) == Respond(t, r) /\ RespondHist(t, r)
RetryFetch(t) == Retry(t) /\ RetryHist(t)

\* ------------------------------------------------------- process_range (2)

\* one iteration of `for f in asyncio.as_completed(tasks)`: res = await f
\* (which re-raises the task's exception), append, count, progress line
Collect ==
    /\ pc = "loop"
    /\ todo > 0
    /\ doneQ # <<>>
    /\ LET t == Head(doneQ) IN
       IF fpc[t] = "raised"
       THEN /\ pc' = "crashed"
            /\ exitStatus' = 1
            /\ UNCHANGED <<results, received, count, printed>>
       ELSE /\ results' = Append(results, ret[t])
            /\ received' = Append(received, t)
            /\ count' = CountUp(count)
            /\ printed' = IF ProgressDue(count', total)
                          THEN Append(printed, count') ELSE printed
            /\ UNCHANGED <<pc, exitStatus>>
    /\ doneQ' = Tail(doneQ)
    /\ todo' = todo - 1
    /\ UNCHANGED <<argVars, total, fpc, page, attempt, all_results, wait_time,
                   ret, sem, waiters, finished, hist, flattened, gdf,
                   parquetCalls, uploadCalls,
                   written, summary>>

\* the loop is over: flatten, return None or build the GeoDataFrame
Aggregate ==
    /\ pc = "loop"
    /\ todo = 0
    /\ flattened' = Flatten(results)
    /\ gdf' = Frame(flattened')
    /\ pc' = "returned"
    /\ UNCHANGED <<argVars, fetchVars, loopVars, hist, parquetCalls,
                   uploadCalls, written, summary, exitStatus>>

\* ---------------------------------------------------------------- __main__

\* gdf.to_parquet(fname, index=False); a failure ends the process
ExportWrite ==
    /\ pc = "returned"
    /\ ShouldExport(gdf)
    /\ parquetCalls' = parquetCalls + 1
    /\ written' = gdf.rows
    /\ \E ok \in BOOLEAN :
         IF ok THEN pc' = "written" /\ exitStatus' = exitStatus
               ELSE pc' = "crashed" /\ exitStatus' = 1
    /\ UNCHANGED <<argVars, fetchVars, loopVars, hist, flattened, gdf,
                   uploadCalls, summary>>

\* api.upload_file(...); then the success line
ExportUpload ==
    /\ pc = "written"
    /\ uploadCalls' = uploadCalls + 1
    /\ \E ok \in BOOLEAN :
         IF ok THEN pc' = "exit" /\ summary' = "uploaded" /\ exitStatus' = 0
               ELSE pc' = "crashed" /\ summary' = summary /\ exitStatus' = 1
    /\ UNCHANGED <<argVars, fetchVars, loopVars, hist, flattened, gdf,
                   parquetCalls, written>>

\* else: print("No valid data found in this range.")
NoData ==
    /\ pc = "returned"
    /\ ~ShouldExport(gdf)
    /\ pc' = "exit"
    /\ summary' = "nodata"
    /\ exitStatus' = 0
    /\ UNCHANGED <<argVars, fetchVars, loopVars, hist, flattened, gdf,
                   parquetCalls, uploadCalls, written>>

\* --------------------------------------------------------- specifications

MainStep == StartRun \/ Collect \/ Aggregate \/ ExportWrite \/ ExportUpload \/ NoData

FetcherFetch(t) ==
    \/ Acquire(t)
    \/ ThrottleFetch(t)
    \/ \E r \in FetchResponses : RespondFetch(t, r)
    \/ RetryFetch(t)

\* runs over up to MaxTasks keys
Next ==
    \/ StartRun
    \/ Collect
    \/ Aggregate
    \/ ExportWrite
    \/ ExportUpload
    \/ NoData
    \/ OnCompletion
    \/ \E t \in Tasks : Acquire(t)
    \/ \E t \in Tasks : Resume(t)
    \/ \E t \in Tasks : ThrottleRun(t)
    \/ \E t \in Tasks : \E r \in RunResponses : RespondRun(t, r)
    \/ \E t \in Tasks : RetryRun(t)

Spec == Init /\ [][Next]_vars

\* liveness does not depend on the key values, nor on how many records a
\* response holds: the range starts at 1, a response holds at most one
InitLive == Init /\ start = 1

LiveResponses == {r \in RunResponses : r.nrec <= 1}

FetcherLive(t) ==
    \/ Acquire(t)
    \/ Resume(t)
    \/ ThrottleRun(t)
    \/ \E r \in LiveResponses : RespondRun(t, r)
    \/ RetryRun(t)

NextLive ==
    \/ StartRun
    \/ Collect
    \/ Aggregate
    \/ ExportWrite
    \/ ExportUpload
    \/ NoData
    \/ OnCompletion
    \/ \E t \in Tasks : FetcherLive(t)

\* the event loop runs every task and callback that can take a step, every
\* request is answered or times out (timeout=15), every sleep ends
FairSpec ==
    /\ InitLive
    /\ [][NextLive]_vars
    /\ WF_vars(MainStep)
    /\ WF_vars(OnCompletion)
    /\ \A t \in Tasks : WF_vars(FetcherLive(t))

\* runs over one key, every response shape, with the request history (a
\* single task never waits for the permit: no Resume)
NextFetch ==
    \/ StartRun
    \/ Collect
    \/ Aggregate
    \/ ExportWrite
    \/ ExportUpload
    \/ NoData
    \/ OnCompletion
    \/ \E t \in Tasks : Acquire(t)
    \/ \E t \in Tasks : ThrottleFetch(t)
    \/ \E t \in Tasks : \E r \in FetchResponses : RespondFetch(t, r)
    \/ \E t \in Tasks : RetryFetch(t)

SpecFetch == InitFetch /\ [][NextFetch]_vars

\* runs against a server that may announce one more page with every response
NextOneMore ==
    \/ Next
    \/ \E t \in Tasks : RespondOneMore(t)

SpecOneMore == InitLive /\ [][NextOneMore]_vars

\* ------------------------------------------- two fetchers, several pages
\* Runs over one or two keys whose fetchers go through several pages, with
\* the sequence of responses each fetcher received kept in hist[t].log.

PairResponses ==
    [kind : {"ok"}, nrec : {1}, total : {<<1>>, <<2>>}]
        \cup [kind : {"s429", "other"}, nrec : {0}, total : {<<>>}]

InitPair == Init /\ start = 1 /\ end \in {1, 2}

RespondPair(t, r) ==
    /\ Respond(t, r)
    /\ hist' = [hist EXCEPT ![t].log = Append(@, r)]

NextPair ==
    \/ StartRun
    \/ Collect
    \/ Aggregate
    \/ ExportWrite
    \/ ExportUpload
    \/ NoData
    \/ OnCompletion
    \/ \E t \in Tasks : Acquire(t)
    \/ \E t \in Tasks : Resume(t)
    \/ \E t \in Tasks : ThrottleRun(t)
    \/ \E t \in Tasks : \E r \in PairResponses : RespondPair(t, r)
    \/ \E t \in Tasks : RetryRun(t)

SpecPair == InitPair /\ [][NextPair]_vars

\* ---------------------------------------------------- long runs: progress
\* The as_completed loop of a run over many keys.  Only the loop is followed:
\* a fetcher is known by the rank of its completion, and every fetcher
\* returned an empty list.

ProgressTotals ==
    {1, 2, PROGRESS_EVERY - 1, PROGRESS_EVERY, PROGRESS_EVERY + 1,
     2 * PROGRESS_EVERY, 2 * PROGRESS_EVERY + 1}

\* the state at the first iteration of the as_completed loop
InitProgress ==
    /\ start = 1
    /\ end \in ProgressTotals
    /\ limit = 1
    /\ pc = "loop"
    /\ pcodes = Pcodes(start, end)
    /\ sem = limit
    /\ waiters = <<>>
    /\ finished = <<>>
    /\ fpc = [t \in Tasks |-> "none"]
    /\ page = [t \in Tasks |-> 0]
    /\ attempt = [t \in Tasks |-> 0]
    /\ all_results = [t \in Tasks |-> <<>>]
    /\ wait_time = [t \in Tasks |-> 0]
    /\ ret = [t \in Tasks |-> <<>>]
    /\ doneQ = <<>>
    /\ results = <<>>
    /\ received = <<>>
    /\ count = 0
    /\ total = Len(pcodes)
    /\ todo = Len(pcodes)
    /\ printed = <<>>
    /\ flattened = <<>>
    /\ gdf = NoneValue
    /\ parquetCalls = 0
    /\ uploadCalls = 0
    /\ written = <<>>
    /\ summary = "none"
    /\ exitStatus = 0
    /\ hist = [t \in Tasks |-> NoHist]

\* the done callback of one more task runs (_on_completion): the task is
\* put into the queue of as_completed, under the rank of its completion
Finish ==
    /\ pc = "loop"
    /\ Len(received) + Len(doneQ) < total
    /\ Len(doneQ) < MaxBacklog
    /\ doneQ' = Append(doneQ, Len(received) + Len(doneQ) + 1)
    /\ UNCHANGED <<argVars, pc, fpc, page, attempt, all_results, wait_time,
                   ret, sem, waiters, finished, hist, loopVars, mainVars>>

\* one iteration of `for f in asyncio.as_completed(tasks)`: res = await f,
\* append, count, progress line
CollectCompleted ==
    /\ pc = "loop"
    /\ todo > 0
    /\ doneQ # <<>>
    /\ results' = Append(results, <<>>)
    /\ received' = Append(received, Head(doneQ))
    /\ count' = CountUp(count)
    /\ printed' = IF ProgressDue(count', total)
                  THEN Append(printed, count') ELSE printed
    /\ doneQ' = Tail(doneQ)
    /\ todo' = todo - 1
    /\ UNCHANGED <<argVars, pc, total, fpc, page, attempt, all_results,
                   wait_time, ret, sem, waiters, finished, hist, mainVars>>

NextProgress ==
    \/ Finish
    \/ CollectCompleted

SpecProgress == InitProgress /\ [][NextProgress]_vars

TypeOK ==
    /\ pc \in {"main", "loop", "returned", "written", "exit", "crashed"}
    /\ \A t \in Tasks : fpc[t] \in {"none", "wait", "queued", "woken", "sleep", "request",
                                   "backoff", "done", "raised"}


\* ------------------------------------------------------------- properties

Created == 1..Len(pcodes)

\* the fetchers inside the block guarded by `async with semaphore`
Inside == {t \in Tasks : fpc[t] \in {"sleep", "request", "backoff"}}

AllReturned == \A t \in Created : fpc[t] = "done"

\* process_range has returned to __main__
RunReturned ==
    \/ pc \in {"returned", "written", "exit"}
    \/ pc = "crashed" /\ parquetCalls > 0

Count(s, x) == Cardinality({i \in 1..Len(s) : s[i] = x})

\* C1: at most `limit` fetchers are inside the permit-guarded section (fixed
\* sleep, outstanding request, backoff) at any time, the semaphore never
\* goes below zero, and so no request is outstanding without a permit.
C1_ConcurrencyBound ==
    /\ Cardinality(Inside) <= limit
    /\ pc # "main" => sem >= 0
    /\ Cardinality({t \in Tasks : fpc[t] = "request"}) <= limit - sem

\* the pool is full, a request is outstanding and another fetcher waits
C1_Witness ==
    /\ Cardinality(Inside) = limit
    /\ \E t \in Tasks : fpc[t] = "request"
    /\ \E t \in Tasks : fpc[t] = "queued"

\* C2: for start <= end one task exists per key of [start, end] and no other
\* task; once the loop is over results holds one entry per key, each being
\* the list returned by a distinct task.
C2_OneFetchPerKey ==
    (start <= end /\ pc # "main") =>
        /\ Len(pcodes) = end - start + 1
        /\ \A p \in start..end :
               Cardinality({t \in Created : pcodes[t] = Pad06(p)}) = 1
        /\ \A t \in Created : Count(finished \o doneQ \o received, t) <= 1
        /\ RunReturned =>
               /\ Len(results) = end - start + 1
               /\ Len(received) = Len(results)
               /\ \A t \in Created : Count(received, t) = 1
               /\ \A i \in 1..Len(results) : results[i] = ret[received[i]]

\* two keys, finished in the order second-then-first, one list empty
C2_Witness ==
    /\ pc = "returned"
    /\ start < end
    /\ received = <<2, 1>>
    /\ results[1] # <<>>
    /\ results[2] = <<>>

\* C3: no execution of fetch_pcode ends with an exception, whatever the
\* server did; the run can fail only once the export has started.
C3_NeverRaises ==
    /\ \A t \in Tasks : fpc[t] # "raised"
    /\ pc = "crashed" => parquetCalls > 0

\* a fetch that met a malformed body returned, and process_range returned
C3_Witness ==
    /\ pc = "returned"
    /\ \E t \in Created :
          /\ fpc[t] = "done"
          /\ hist[t].exit = "exhausted"
          /\ ~hist[t].pure

\* C4: a fetch returns after finitely many requests whatever the server
\* answers.  Each request is answered in one of finitely many ways, so this
\* amounts to a limit on the requests of a fetch for all answers; with at
\* most MAX_ATTEMPTS requests per page, to a last page.  Stated for the
\* pages followed: no fetcher is still at work beyond page MaxPage.
C4_FetchTerminates ==
    \A t \in Tasks :
        fpc[t] \in {"sleep", "request", "backoff"} => page[t] <= MaxPage

Upto(n) == [p \in 1..n |-> p]

\* C5: when every response was a well-formed 200 reporting the same total
\* T >= 1, pages 1..T were requested once each, in order, and the list
\* returned is the concatenation of the T bodies; when the responses report
\* total 0 or no total, one request was made and page 1's body is returned.
C5_Pagination ==
    \A t \in Created :
        (fpc[t] = "done" /\ hist[t].okOnly) =>
            /\ \A T \in 1..MaxTotal :
                   hist[t].totals = {<<T>>} =>
                       /\ hist[t].requests = Upto(T)
                       /\ Len(hist[t].bodies) = T
                       /\ ret[t] = Flatten(hist[t].bodies)
            /\ (hist[t].totals \subseteq {<<>>, <<0>>}) =>
                   /\ hist[t].requests = <<1>>
                   /\ ret[t] = hist[t].bodies[1]

\* MaxTotal pages, all answered 200 with total MaxTotal, records on each
C5_Witness ==
    \E t \in Created :
        /\ fpc[t] = "done"
        /\ hist[t].okOnly
        /\ hist[t].totals = {<<MaxTotal>>}
        /\ Len(ret[t]) = MaxTotal * MaxRecs

\* C6: when the four attempts for page p all failed with 429, 5xx or a
\* transport failure, page p was requested four times, no later page was,
\* and the list returned is the one held when page p was first requested.
C6_RetryExhausted ==
    \A t \in Created :
        (hist[t].exit = "exhausted" /\ hist[t].pure) =>
            /\ fpc[t] = "done"
            /\ hist[t].asked = MAX_ATTEMPTS
            /\ hist[t].askedPage = page[t]
            /\ ret[t] = hist[t].before
            /\ \A i \in 1..Len(ret[t]) : ret[t][i].page < page[t]

\* page 1 delivered records, page 2 was given up after four failures
C6_Witness ==
    \E t \in Created :
        /\ hist[t].exit = "exhausted"
        /\ hist[t].pure
        /\ page[t] = 2
        /\ ret[t] # <<>>

\* C7: after a status other than 200, 429, 5xx for page p the fetch is over
\* and returns the records held when page p was first requested.
C7_PermanentStops ==
    \A t \in Created :
        hist[t].exit = "permanent" =>
            /\ fpc[t] = "done"
            /\ hist[t].askedPage = page[t]
            /\ ret[t] = hist[t].before

\* C8: every run reaches the end of the loop with all fetchers returned and
\* count = total.
C8_AllComplete ==
    <>(/\ pc \notin {"main", "loop"}
       /\ AllReturned
       /\ total = Len(pcodes)
       /\ count = total)

\* more keys than permits, and the run is through
C8_Witness ==
    /\ pc = "returned"
    /\ Len(pcodes) > limit
    /\ count = Len(pcodes)
    /\ sem = limit

RECURSIVE ConcatReturned(_)
ConcatReturned(order) ==
    IF order = <<>> THEN <<>>
    ELSE ret[Head(order)] \o ConcatReturned(Tail(order))

OfKey(s, key) == LET Is(r) == r.pcode = key IN SelectSeq(s, Is)

\* C9: flattened is the concatenation of the returned lists in the order the
\* controller received them, so the records of each key appear once, in
\* their order; process_range returns None iff every list is empty.
C9_Aggregation ==
    RunReturned =>
        /\ flattened = ConcatReturned(received)
        /\ \A t \in Created : OfKey(flattened, pcodes[t]) = ret[t]
        /\ Len(gdf.rows) = Len(flattened)
        /\ \A i \in 1..Len(gdf.rows) : gdf.rows[i].rec = flattened[i]
        /\ gdf.none <=> (\A t \in Created : ret[t] = <<>>)

\* the second key finished first with two records, the first with none
C9_Witness ==
    /\ pc = "returned"
    /\ received = <<2, 1>>
    /\ Len(ret[2]) = 2
    /\ ret[1] = <<>>
    /\ ~gdf.none

\* C10: to_parquet and upload_file are called at most once each and only
\* after every fetcher returned; a run with a non-empty aggregate calls
\* to_parquet once with one row per record, a run with an empty aggregate
\* calls neither and reports 'no data'.
C10_ExportOnce ==
    /\ parquetCalls <= 1 /\ uploadCalls <= 1 /\ uploadCalls <= parquetCalls
    /\ parquetCalls > 0 =>
           /\ AllReturned /\ todo = 0
           /\ flattened # <<>>
           /\ Len(written) = Len(flattened)
    /\ pc \in {"written", "exit", "crashed"} =>
           IF flattened # <<>>
           THEN parquetCalls = 1 /\ (pc = "exit" => uploadCalls = 1 /\ summary = "uploaded")
           ELSE parquetCalls = 0 /\ uploadCalls = 0 /\ summary = "nodata"

\* a finished run that exported a three-row table
C10_Witness ==
    /\ pc = "exit"
    /\ summary = "uploaded"
    /\ parquetCalls = 1 /\ uploadCalls = 1
    /\ Len(written) = 3


\* C11: count equals the number of lists appended to results, stays within
\* 0..total, equals total once the loop is over, and never decreases.
C11_ProgressCounter ==
    /\ [](/\ count = Len(results)
          /\ 0 <= count /\ count <= total
          /\ RunReturned => count = total)
    /\ [][count' >= count /\ (count' # count => Len(results') = Len(results) + 1)]_vars

\* one of two completions counted while the other fetcher is backing off
C11_Witness ==
    /\ pc = "loop"
    /\ total = 2
    /\ count = 1
    /\ received = <<2>>
    /\ fpc[1] = "backoff"

\* C12: a run given start > end does not end in the ordinary 'no data'
\* outcome of a valid range.
C12_RejectsInvertedRange ==
    start > end => ~(pc = "exit" /\ summary = "nodata" /\ exitStatus = 0)

\* C13: a run that uploaded exits with status 0, a run that ended with
\* 'no data' with another status, a run whose export failed with a
\* non-zero status.
C13_ExitStatusReflectsExport ==
    /\ (pc = "exit" /\ summary = "uploaded") => exitStatus = 0
    /\ (pc = "exit" /\ summary = "nodata") => exitStatus # 0
    /\ pc = "crashed" => exitStatus # 0

\* C14: the page requested starts at 1 and moves up by exactly 1; page N+1
\* is requested only after a 200 response for page N was processed; the
\* outstanding request is for the current page; no earlier page is
\* requested again.
C14_PageCursor ==
    /\ [](\A t \in Created :
             /\ fpc[t] \in {"sleep", "request", "backoff"} => page[t] >= 1
             /\ fpc[t] \in {"request", "backoff"} =>
                    /\ hist[t].askedPage = page[t]
                    /\ hist[t].okPage = page[t] - 1
             /\ hist[t].askedPage <= hist[t].okPage + 1)
    /\ [][\A t \in Tasks :
             /\ page'[t] \in {page[t], page[t] + 1}
             /\ hist'[t].askedPage \in {hist[t].askedPage, hist[t].askedPage + 1}
             /\ page'[t] # page[t] /\ page[t] >= 1 =>
                    /\ fpc[t] = "request"
                    /\ hist'[t].okPage = page[t]]_vars

\* page 2 is being retried after page 1 was answered
C14_Witness ==
    \E t \in Created :
        /\ fpc[t] = "request"
        /\ page[t] = 2
        /\ attempt[t] = 1
        /\ hist[t].okPage = 1
        /\ all_results[t] # <<>>

\* the fetchers that a release has handed its permit to and that have not
\* resumed yet
Woken == {t \in Tasks : fpc[t] = "woken"}

\* C15 as stated: free permits plus fetchers inside the guarded section make
\* up the pool size at all times, and once every fetcher returned all
\* permits are free.
C15_PermitAccounting ==
    pc # "main" =>
        /\ sem + Cardinality(Inside) = limit
        /\ sem \in 0..limit
        /\ AllReturned => sem = limit

\* C15 amended: free permits, fetchers inside the guarded section and
\* fetchers woken with a permit handed over make up the pool size at all
\* times; a fetcher not yet admitted or returned holds none, and once every
\* fetcher returned all permits are free.
C15_PermitsHeld ==
    pc # "main" =>
        /\ sem + Cardinality(Inside) + Cardinality(Woken) = limit
        /\ sem \in 0..limit
        /\ AllReturned => sem = limit

\* one fetcher returned and its permit went to a waiter that has not
\* resumed: no permit is free and no fetcher is inside
C15_Witness ==
    /\ limit = 1
    /\ sem = 0
    /\ Inside = {}
    /\ \E t \in Created : fpc[t] = "woken"
    /\ \E t \in Created : fpc[t] = "done"

\* C16 as stated: every request is issued right after a completed fixed
\* delay.
C16_FixedDelayBeforeEveryRequest ==
    \A t \in Created :
        fpc[t] = "request" =>
            /\ hist[t].sleptKind = "fixed"
            /\ hist[t].slept = FIXED_DELAY

\* C16 amended: every request is issued right after a completed sleep, the
\* fixed delay before the first attempt for a page and the backoff wait,
\* which is longer than the fixed delay, before every retry.
C16_SleepBeforeEveryRequest ==
    \A t \in Created :
        fpc[t] = "request" =>
            IF attempt[t] = 0
            THEN hist[t].sleptKind = "fixed" /\ hist[t].slept = FIXED_DELAY
            ELSE hist[t].sleptKind = "backoff" /\ hist[t].slept > FIXED_DELAY

\* a retry is outstanding, issued after a backoff wait
C16_Witness ==
    \E t \in Created :
        /\ fpc[t] = "request"
        /\ attempt[t] = 2
        /\ hist[t].sleptKind = "backoff"

ExpectedBackoff == <<2, 3, 5, 9>>

\* C17: every failed attempt is followed by a backoff of 2^attempt + 1 on
\* the same page; a page is requested at most four times whatever the
\* failures were; a retry uses the next attempt number and the first request
\* for a page uses attempt 0.
C17_RetryBudget ==
    /\ [](\A t \in Created :
             /\ attempt[t] \in 0..3
             /\ hist[t].asked <= 4
             /\ fpc[t] = "request" => hist[t].asked = attempt[t] + 1
             /\ fpc[t] = "backoff" => wait_time[t] = ExpectedBackoff[attempt[t] + 1])
    /\ [][\A t \in Tasks :
             /\ (fpc[t] = "request" /\ fpc'[t] = "backoff") => page'[t] = page[t]
             /\ (fpc[t] = "backoff" /\ fpc'[t] = "request") =>
                    page'[t] = page[t] /\ attempt'[t] = attempt[t] + 1
             /\ (fpc[t] = "sleep" /\ fpc'[t] = "request") => attempt'[t] = 0
             /\ (page'[t] # page[t] /\ page[t] >= 1) => fpc'[t] = "sleep"]_vars

\* the fourth attempt for page 2 failed, after failures of several kinds
C17_Witness ==
    \E t \in Created :
        /\ fpc[t] = "backoff"
        /\ page[t] = 2
        /\ attempt[t] = 3
        /\ wait_time[t] = 9
        /\ ~hist[t].pure

\* C18: results are processed in the order the tasks completed; a progress
\* line was printed for exactly those counts that are a multiple of 1000 or
\* equal to total; the counts printed are strictly increasing; when the loop
\* of a run with at least one key is over, the last line reports total.
C18_ProgressCadence ==
    /\ \A i \in 1..Len(received) : received[i] = i
    /\ \A c \in 1..count :
           (\E i \in 1..Len(printed) : printed[i] = c)
               <=> (c % PROGRESS_EVERY = 0 \/ c = total)
    /\ \A i \in 1..Len(printed) : printed[i] \in 1..count
    /\ \A i \in 1..(Len(printed) - 1) : printed[i] < printed[i + 1]
    /\ (todo = 0 /\ total >= 1) =>
           /\ printed # <<>>
           /\ printed[Len(printed)] = total

\* a run over 1001 keys is over: lines at 1000 and at the last completion
C18_Witness ==
    /\ total = PROGRESS_EVERY + 1
    /\ todo = 0
    /\ count = total
    /\ received # <<>> /\ received[Len(received)] = total
    /\ printed = <<PROGRESS_EVERY, PROGRESS_EVERY + 1>>

NoDuplicates(s) == \A i, j \in 1..Len(s) : s[i] = s[j] => i = j

\* C19: while a page is being retried the accumulated records and the page
\* number are those held when the page was first requested, and the list
\* returned holds no record twice.
C19_FailedAttemptKeepsCursor ==
    \A t \in Created :
        /\ fpc[t] = "backoff" =>
               /\ all_results[t] = hist[t].before
               /\ page[t] = hist[t].askedPage
        /\ fpc[t] = "done" => NoDuplicates(ret[t])

\* what fetch_pcode returns for key when the server answers its requests
\* with the responses of log, in that order, and nothing else is running:
\* p is the page being requested, a the attempt, acc the records so far
\* (a 200 whose total cannot be compared was appended before it failed)
RECURSIVE Replay(_, _, _, _, _)
Replay(key, log, p, a, acc) ==
    IF log = <<>> THEN acc
    ELSE LET r == Head(log)
             got == IF r.nrec > 0 THEN acc \o Body(key, p, r.nrec) ELSE acc
         IN  IF r.kind = "ok"
             THEN IF TotalPages(r) > p
                  THEN Replay(key, Tail(log), p + 1, 0, got)
                  ELSE got
             ELSE IF r.kind = "other" THEN acc
             ELSE LET kept == IF r.kind = "badtotal" THEN got ELSE acc
                  IN  IF a + 1 < MAX_ATTEMPTS
                      THEN Replay(key, Tail(log), p, a + 1, kept)
                      ELSE kept

\* C20: the list a fetcher returned is determined by its key and by the
\* sequence of responses it received itself, whatever the concurrency limit,
\* the other key and the interleaving with the other fetcher.
C20_OwnResponsesOnly ==
    \A t \in Created :
        fpc[t] = "done" => ret[t] = Replay(pcodes[t], hist[t].log, 1, 0, <<>>)

\* two fetchers ran concurrently, the second finished first after a retry,
\* the first went through two pages
C20_Witness ==
    /\ limit = 2
    /\ fpc[1] = "done" /\ fpc[2] = "done"
    /\ doneQ = <<2, 1>>
    /\ Len(ret[1]) = 2
    /\ Len(hist[1].log) = 3
    /\ Len(ret[2]) = 1
    /\ hist[2].log[1].kind = "s429"

====
